---- MODULE Spec2Model ----
(***************************************************************************)
(* Model of the quiz session engine (QuizEngine), the generator registry   *)
(* it draws its pool from, the QuizScreen handler that drives it, App's    *)
(* navigation between screens, and the DownloadService.                    *)
(*                                                                         *)
(* Sequences are 1-based here and 0-based in the source: the source's      *)
(* pool[k] is pool[k + 1] below and slice(a, b) is SubSeq(pool, a + 1, b). *)
(* currentIndex and poolIndex keep the source's 0-based values.            *)
(***************************************************************************)
EXTENDS Integers, Sequences, FiniteSets, TLC

VARIABLES
    generators,      \* QuizGeneratorRegistryClass.generators : id -> generator
    pool,            \* QuizEngine.pool
    poolIndex,       \* QuizEngine.poolIndex
    session,         \* the QuizSession value the caller holds (NoSession = null)
    call,            \* the engine call made last and what it returned
    bonusCalls,      \* addBonusQuestion calls made since the pool was generated
    mounted,         \* a QuizScreen is mounted (App shows the Quiz screen)
    selectedOption,  \* QuizScreen state selectedOption (NoOption = null)
    showFeedback,    \* QuizScreen state showFeedback
    timers,          \* the pending setTimeout callbacks of handleSubmit, oldest first
    completed,       \* the QuizResult handed to onComplete (NoResult = none)
    session2,        \* the QuizSession value a second caller of the same engine holds
    served,          \* pool positions handed to a session since the pool was generated
    poolOwner,       \* the caller whose createSession generated the pool (0 = none)
    wrapped,         \* getRetrySession has wrapped the cursor since the pool was generated
    calls,           \* engine calls the two callers have made
    registered,      \* the generators passed to register, in the order of the calls
    screen,          \* App state screen.name
    cache,           \* DownloadService.cache : lessonId -> DownloadInfo (NoInfo = no key)
    loaded,          \* DownloadService.loaded
    reading,         \* the getItem init awaits (NoRead = none), with the item at the call
    intervals,       \* lessonId -> live setInterval callbacks of startDownload
    storage          \* AsyncStorage item '@downloads' (NoItem = null)

vars == <<generators, pool, poolIndex, session, call, bonusCalls,
          mounted, selectedOption, showFeedback, timers, completed,
          session2, served, poolOwner, wrapped, calls, registered,
          screen, cache, loaded, reading, intervals, storage>>

\* the DownloadService and its storage
downloadVars == <<cache, loaded, reading, intervals, storage>>

\* what only the scenario specifications (SpecRetry, SpecCallers, SpecRegistry) change
scenarioVars == <<session2, served, poolOwner, wrapped, calls, registered, downloadVars>>

engineVars == <<generators, pool, poolIndex, session, call, bonusCalls, scenarioVars>>
screenVars == <<mounted, selectedOption, showFeedback, timers, completed, screen>>

----------------------------------------------------------------------------
(* Program constants *)

REGULAR_QUESTION_COUNT == 4
GRAND_QUIZ_QUESTION_COUNT == 20
POOL_SIZE_MULTIPLIER == 5

(* Bounds of the exploration *)

\* number of distinct shuffle outcomes a generated pool is drawn from
MaxSeed == 1
\* addBonusQuestion calls explored on one pool when the engine is called freely
MaxBonusCalls == 2
\* a grand quiz is explored with answer sheets that are correct up to some
\* question and wrong from there to the last regular question, with at most
\* this many wrong answers (more than half of the 20, so that every star
\* rating occurs); a regular quiz is explored with every answer sheet
MaxGrandWrong == 11
\* wrong options of a question the answer sheets of a grand quiz use
MaxGrandWrongOptions == 1
\* setTimeout callbacks of handleSubmit pending at a time
MaxTimeouts == 2
\* engine calls two callers make on the shared engine
MaxCalls == 5
\* the largest count asked of a generator (more than the 4 entries of the
\* default distribution, so that generate has to fill its difficulty queue)
MaxCount == 5
\* outcomes of the random source that a shuffle is run with
MaxShuffle == 2
\* register calls made after the modules are loaded
MaxRegistrations == 2
\* values Math.random() takes in the download progress step: k / MaxRandom
MaxRandom == 2
\* the largest number drawn for the dataset of the statistics question
MaxStatsDraw == 4

----------------------------------------------------------------------------
(* Values *)

Letters == <<"A", "B", "C", "D">>
OptionIds == {Letters[i] : i \in 1..Len(Letters)}

NoSession == [isNull |-> TRUE]
NoOption == "null"
NoResult == [isNull |-> TRUE]
NoCall == [op |-> "none"]
NoInfo == [isNull |-> TRUE]
NoItem == [isNull |-> TRUE]
NoRead == [pending |-> FALSE]
Lessons == {"lesson1", "lesson2"}
RegisteredIds == {"limits"}
GeneratorIds == RegisteredIds \cup {"unknown_topic"}

Min(a, b) == IF a < b THEN a ELSE b

\* number of elements of a sequence of answers with the given correct flag
CountCorrect(answers, flag) ==
    Cardinality({i \in 1..Len(answers) : answers[i].correct = flag})

----------------------------------------------------------------------------
(* Generator and registry *)

\* A generator's generate(count, distribution): count questions, the i-th
\* with an id unique in the call; the letter the shuffle gives the correct
\* option is one of the outcomes selected by seed.
generate(generatorId, count, seed) ==
    [i \in 1..count |->
        [id |-> <<generatorId, i - 1>>,
         difficulty |-> "easy",
         correctOptionId |-> Letters[((i - 1 + seed) % Len(Letters)) + 1]]]

\* the generator objects the modules construct: new LimitsGenerator(),
\* new DerivativesBasicGenerator(), new IntegralsGenerator() and
\* new GenericMathGenerator(id, id)
LimitsGenerator == [id |-> "limits", class |-> "LimitsGenerator"]
DerivativesBasicGenerator == [id |-> "derivatives_basic", class |-> "DerivativesBasicGenerator"]
IntegralsGenerator == [id |-> "integrals_basic", class |-> "IntegralsGenerator"]
GenericMathGenerator(id) == [id |-> id, class |-> "GenericMathGenerator"]
\* the class of the same name whose generateOne is the algebra question alone
GenericMathGenerator_fallback(id) == [id |-> id, class |-> "GenericMathGenerator_fallback"]

\* DEFAULT_DISTRIBUTION of the registry and of the engine
DEFAULT_DISTRIBUTION == [easy |-> 1, medium |-> 2, hard |-> 1]

\* n pushes of x onto an empty queue
Pushes(x, n) == [i \in 1..n |-> x]

\* Math.floor(Math.random() * (i + 1)): one of 0..i, the outcome selected by seed
randomIndex(seed, i) == (seed * (i + 2) + i + seed) % (i + 1)

\* DerivativesBasicGenerator.generate, the shuffle loop from position i down to 1
RECURSIVE shuffle(_, _, _)
shuffle(diffQueue, i, seed) ==
    IF i < 1
    THEN diffQueue
    ELSE LET j == randomIndex(seed, i)
         IN  shuffle([diffQueue EXCEPT ![i + 1] = diffQueue[j + 1],
                                       ![j + 1] = diffQueue[i + 1]],
                     i - 1, seed)

\* DerivativesBasicGenerator.generate that builds one question per queue entry
DerivativesBasicGenerator_generate_perQueueEntry(count, distribution, seed) ==
    LET built == Pushes("easy", distribution.easy)
                 \o Pushes("medium", distribution.medium)
                 \o Pushes("hard", distribution.hard)
        filled == IF Len(built) < count
                  THEN built \o Pushes("medium", count - Len(built))
                  ELSE built
        diffQueue == shuffle(filled, Len(filled) - 1, seed)
    IN  [i \in 1..Len(diffQueue) |->
            [id |-> <<"deriv", diffQueue[i], i - 1>>,
             difficulty |-> diffQueue[i],
             correctOptionId |-> Letters[((i - 1 + seed) % Len(Letters)) + 1]]]

\* DerivativesBasicGenerator.generate
DerivativesBasicGenerator_generate(count, distribution, seed) ==
    LET built == Pushes("easy", distribution.easy)
                 \o Pushes("medium", distribution.medium)
                 \o Pushes("hard", distribution.hard)
        filled == IF Len(built) < count
                  THEN built \o Pushes("medium", count - Len(built))
                  ELSE built
        diffQueue == shuffle(filled, Len(filled) - 1, seed)
    IN  [i \in 1..count |->
            LET difficulty == IF i <= Len(diffQueue) THEN diffQueue[i] ELSE "medium"
            IN  [id |-> <<"deriv", difficulty, i - 1>>,
                 difficulty |-> difficulty,
                 correctOptionId |-> Letters[((i - 1 + seed) % Len(Letters)) + 1]]]

\* IntegralsGenerator.generate
IntegralsGenerator_generate(count, seed) ==
    [i \in 1..count |->
        [id |-> <<"integrals", i - 1>>,
         difficulty |-> "medium",
         correctOptionId |-> Letters[((i - 1 + seed) % Len(Letters)) + 1]]]

\* String.prototype.includes
includes(str, k) ==
    \E i \in 1..(Len(str) - Len(k) + 1) : SubSeq(str, i, i + Len(k) - 1) = k

\* GenericMathGenerator.isStatistics, isPhysics, isCalculus
isStatistics(id) ==
    \E k \in {"stats", "probability", "regression", "anova", "data", "distribution",
               "inference", "hypothesis", "variable", "sample"} : includes(id, k)

isPhysics(id) ==
    \E k \in {"physics", "mechanics", "kinematics", "dynamics", "energy", "forces",
               "circuits", "magnetism", "fluids", "optics", "waves", "thermo",
               "torque", "momentum", "oscillations"} : includes(id, k)

isCalculus(id) ==
    \E k \in {"derivative", "integral", "diff_eq", "calculus", "series", "vector",
               "parametric", "polar", "multivariable", "laplace", "matrix",
               "eigen"} : includes(id, k)

\* GenericMathGenerator.generateOne: the question builder it dispatches to, by
\* the tag the builder puts into the question id
generateOne(id) ==
    IF isStatistics(id) THEN "stats"
    ELSE IF isPhysics(id) THEN "phys"
    ELSE IF isCalculus(id) THEN "calc"
    ELSE "alg"

\* GenericMathGenerator.generate: the statistics, physics and calculus
\* questions are 'easy', the algebra question is 'medium'
GenericMathGenerator_generate(id, count, seed) ==
    LET tag == generateOne(id)
    IN  [i \in 1..count |->
            [id |-> <<id, tag, i - 1>>,
             difficulty |-> IF tag = "alg" THEN "medium" ELSE "easy",
             correctOptionId |-> Letters[((i - 1 + seed) % Len(Letters)) + 1]]]

\* generate of the class whose generateOne is the algebra question alone
GenericMathGenerator_fallback_generate(id, count, seed) ==
    [i \in 1..count |->
        [id |-> <<id, i - 1>>,
         difficulty |-> "medium",
         correctOptionId |-> Letters[((i - 1 + seed) % Len(Letters)) + 1]]]

\* generator.generate(count, distribution), by the class of the object
generatorGenerate(generator, count, distribution, seed) ==
    CASE generator.class = "LimitsGenerator" ->
            generate(generator.id, count, seed)
      [] generator.class = "DerivativesBasicGenerator" ->
            DerivativesBasicGenerator_generate(count, distribution, seed)
      [] generator.class = "IntegralsGenerator" ->
            IntegralsGenerator_generate(count, seed)
      [] generator.class = "GenericMathGenerator" ->
            GenericMathGenerator_generate(generator.id, count, seed)
      [] generator.class = "GenericMathGenerator_fallback" ->
            GenericMathGenerator_fallback_generate(generator.id, count, seed)

\* register that keeps the generator an id already has
register_keepFirst(gens, generator) ==
    [id \in DOMAIN gens \cup {generator.id} |->
        IF id \in DOMAIN gens THEN gens[id] ELSE generator]

\* QuizGeneratorRegistryClass.register: generators.set(generator.id, generator)
register(gens, generator) ==
    [id \in DOMAIN gens \cup {generator.id} |->
        IF id = generator.id THEN generator ELSE gens[id]]

\* QuizGeneratorRegistryClass.generateQuestions
generateQuestions(gens, generatorId, count, distribution, seed) ==
    IF generatorId \notin DOMAIN gens
    THEN << >>
    ELSE generatorGenerate(gens[generatorId], count, distribution, seed)

----------------------------------------------------------------------------
(* QuizEngine: each operation as the value it returns and the engine       *)
(* fields it leaves behind                                                 *)

regularCountOf(isGrandQuiz) ==
    IF isGrandQuiz THEN GRAND_QUIZ_QUESTION_COUNT ELSE REGULAR_QUESTION_COUNT

\* createSession without the empty-pool check
createSession_noEmptyCheck(gens, oldPoolIndex, courseId, unitId, generatorId, isGrandQuiz, seed) ==
    LET questionCount == regularCountOf(isGrandQuiz)
        poolSize == questionCount * POOL_SIZE_MULTIPLIER
        newPool == generateQuestions(gens, generatorId, poolSize, DEFAULT_DISTRIBUTION, seed)
    IN  [ret |-> [courseId |-> courseId,
                  unitId |-> unitId,
                  questions |-> SubSeq(newPool, 1, Min(questionCount, Len(newPool))),
                  currentIndex |-> 0,
                  answers |-> << >>,
                  bonusTriggered |-> FALSE,
                  stars |-> 0,
                  isGrandQuiz |-> isGrandQuiz],
         pool |-> newPool,
         poolIndex |-> questionCount]

\* createSession that always takes the regular batch size
createSession_regularBatch(gens, oldPoolIndex, courseId, unitId, generatorId, isGrandQuiz, seed) ==
    LET questionCount == REGULAR_QUESTION_COUNT
        poolSize == regularCountOf(isGrandQuiz) * POOL_SIZE_MULTIPLIER
        newPool == generateQuestions(gens, generatorId, poolSize, DEFAULT_DISTRIBUTION, seed)
    IN  IF Len(newPool) = 0
        THEN [ret |-> NoSession, pool |-> newPool, poolIndex |-> oldPoolIndex]
        ELSE [ret |-> [courseId |-> courseId,
                       unitId |-> unitId,
                       questions |-> SubSeq(newPool, 1, Min(questionCount, Len(newPool))),
                       currentIndex |-> 0,
                       answers |-> << >>,
                       bonusTriggered |-> FALSE,
                       stars |-> 0,
                       isGrandQuiz |-> isGrandQuiz],
              pool |-> newPool,
              poolIndex |-> questionCount]

\* QuizEngine.createSession: [ret, pool, poolIndex]
createSession(gens, oldPoolIndex, courseId, unitId, generatorId, isGrandQuiz, seed) ==
    LET questionCount == regularCountOf(isGrandQuiz)
        poolSize == questionCount * POOL_SIZE_MULTIPLIER
        newPool == generateQuestions(gens, generatorId, poolSize, DEFAULT_DISTRIBUTION, seed)
    IN  IF Len(newPool) = 0
        THEN [ret |-> NoSession, pool |-> newPool, poolIndex |-> oldPoolIndex]
        ELSE [ret |-> [courseId |-> courseId,
                       unitId |-> unitId,
                       questions |-> SubSeq(newPool, 1, Min(questionCount, Len(newPool))),
                       currentIndex |-> 0,
                       answers |-> << >>,
                       bonusTriggered |-> FALSE,
                       stars |-> 0,
                       isGrandQuiz |-> isGrandQuiz],
              pool |-> newPool,
              poolIndex |-> questionCount]

\* submitAnswer that scores against the first option instead of the correct one
submitAnswer_firstOption(s, selectedOptionId) ==
    IF s.currentIndex >= Len(s.questions)
    THEN s
    ELSE LET currentQuestion == s.questions[s.currentIndex + 1]
             correct == (selectedOptionId = Letters[1])
         IN  [s EXCEPT
                 !.answers = Append(s.answers,
                                    [questionId |-> currentQuestion.id,
                                     selectedOptionId |-> selectedOptionId,
                                     correct |-> correct]),
                 !.currentIndex = s.currentIndex + 1]

\* submitAnswer that still advances past the last question
submitAnswer_advancePastEnd(s, selectedOptionId) ==
    IF s.currentIndex >= Len(s.questions)
    THEN [s EXCEPT !.currentIndex = s.currentIndex + 1]
    ELSE LET currentQuestion == s.questions[s.currentIndex + 1]
             correct == (selectedOptionId = currentQuestion.correctOptionId)
         IN  [s EXCEPT
                 !.answers = Append(s.answers,
                                    [questionId |-> currentQuestion.id,
                                     selectedOptionId |-> selectedOptionId,
                                     correct |-> correct]),
                 !.currentIndex = s.currentIndex + 1]

\* QuizEngine.submitAnswer
submitAnswer(s, selectedOptionId) ==
    IF s.currentIndex >= Len(s.questions)
    THEN s
    ELSE LET currentQuestion == s.questions[s.currentIndex + 1]
             correct == (selectedOptionId = currentQuestion.correctOptionId)
         IN  [s EXCEPT
                 !.answers = Append(s.answers,
                                    [questionId |-> currentQuestion.id,
                                     selectedOptionId |-> selectedOptionId,
                                     correct |-> correct]),
                 !.currentIndex = s.currentIndex + 1]

\* checkQuizState that offers the bonus after any number of wrong answers
checkQuizState_anyWrong(s) ==
    LET regularCount == regularCountOf(s.isGrandQuiz)
    IN  IF s.currentIndex < regularCount
        THEN "continue"
        ELSE IF s.currentIndex = regularCount /\ ~s.bonusTriggered
        THEN LET wrongCount == CountCorrect(s.answers, FALSE)
             IN  IF wrongCount = 0 THEN "complete"
                 ELSE "bonus_needed"
        ELSE "complete"

\* checkQuizState that goes on through the question at index regularCount
checkQuizState_offByOne(s) ==
    LET regularCount == regularCountOf(s.isGrandQuiz)
    IN  IF s.currentIndex <= regularCount
        THEN "continue"
        ELSE "complete"

\* QuizEngine.checkQuizState
checkQuizState(s) ==
    LET regularCount == regularCountOf(s.isGrandQuiz)
    IN  IF s.currentIndex < regularCount
        THEN "continue"
        ELSE IF s.currentIndex = regularCount /\ ~s.bonusTriggered
        THEN LET wrongCount == CountCorrect(s.answers, FALSE)
             IN  IF wrongCount = 0 THEN "complete"
                 ELSE IF wrongCount = 1 THEN "bonus_needed"
                 ELSE "complete"
        ELSE "complete"

\* addBonusQuestion that takes the entry before the cursor
addBonusQuestion_previousEntry(s, p, pIndex) ==
    IF pIndex < Len(p)
    THEN [ret |-> [s EXCEPT !.questions = Append(s.questions, p[pIndex]),
                            !.bonusTriggered = TRUE],
          poolIndex |-> pIndex + 1]
    ELSE [ret |-> [s EXCEPT !.bonusTriggered = TRUE],
          poolIndex |-> pIndex]

\* addBonusQuestion that wraps the cursor when the pool is exhausted
addBonusQuestion_wrapCursor(s, p, pIndex) ==
    IF pIndex < Len(p)
    THEN [ret |-> [s EXCEPT !.questions = Append(s.questions, p[pIndex + 1]),
                            !.bonusTriggered = TRUE],
          poolIndex |-> pIndex + 1]
    ELSE [ret |-> [s EXCEPT !.bonusTriggered = TRUE],
          poolIndex |-> 0]

\* addBonusQuestion that returns the session as it is when the pool is exhausted
addBonusQuestion_skipWhenExhausted(s, p, pIndex) ==
    IF pIndex < Len(p)
    THEN [ret |-> [s EXCEPT !.questions = Append(s.questions, p[pIndex + 1]),
                            !.bonusTriggered = TRUE],
          poolIndex |-> pIndex + 1]
    ELSE [ret |-> s,
          poolIndex |-> pIndex]

\* addBonusQuestion that flips bonusTriggered
addBonusQuestion_toggle(s, p, pIndex) ==
    IF pIndex < Len(p)
    THEN [ret |-> [s EXCEPT !.questions = Append(s.questions, p[pIndex + 1]),
                            !.bonusTriggered = ~s.bonusTriggered],
          poolIndex |-> pIndex + 1]
    ELSE [ret |-> [s EXCEPT !.bonusTriggered = ~s.bonusTriggered],
          poolIndex |-> pIndex]

\* QuizEngine.addBonusQuestion: [ret, poolIndex]
addBonusQuestion(s, p, pIndex) ==
    IF pIndex < Len(p)
    THEN [ret |-> [s EXCEPT !.questions = Append(s.questions, p[pIndex + 1]),
                            !.bonusTriggered = TRUE],
          poolIndex |-> pIndex + 1]
    ELSE [ret |-> [s EXCEPT !.bonusTriggered = TRUE],
          poolIndex |-> pIndex]

\* getRetrySession that keeps the answers of the previous attempt
getRetrySession_keepAnswers(s, p, pIndex) ==
    LET questionCount == regularCountOf(s.isGrandQuiz)
        start == pIndex
        end == Min(start + questionCount, Len(p))
        questions == SubSeq(p, start + 1, end)
    IN  IF Len(questions) < questionCount
        THEN [ret |-> [s EXCEPT !.questions = SubSeq(p, 1, Min(questionCount, Len(p))),
                                !.currentIndex = 0,
                                !.bonusTriggered = FALSE,
                                !.stars = 0],
              poolIndex |-> 0]
        ELSE [ret |-> [s EXCEPT !.questions = questions,
                                !.currentIndex = 0,
                                !.bonusTriggered = FALSE,
                                !.stars = 0],
              poolIndex |-> end]

\* getRetrySession that serves the batch before the cursor again
getRetrySession_sameBatch(s, p, pIndex) ==
    LET questionCount == regularCountOf(s.isGrandQuiz)
        start == IF pIndex >= questionCount THEN pIndex - questionCount ELSE pIndex
        end == Min(start + questionCount, Len(p))
        questions == SubSeq(p, start + 1, end)
    IN  IF Len(questions) < questionCount
        THEN [ret |-> [s EXCEPT !.questions = SubSeq(p, 1, Min(questionCount, Len(p))),
                                !.currentIndex = 0,
                                !.answers = << >>,
                                !.bonusTriggered = FALSE,
                                !.stars = 0],
              poolIndex |-> 0]
        ELSE [ret |-> [s EXCEPT !.questions = questions,
                                !.currentIndex = 0,
                                !.answers = << >>,
                                !.bonusTriggered = FALSE,
                                !.stars = 0],
              poolIndex |-> end]

\* getRetrySession that serves what is left instead of wrapping
getRetrySession_partialBatch(s, p, pIndex) ==
    LET questionCount == regularCountOf(s.isGrandQuiz)
        start == pIndex
        end == Min(start + questionCount, Len(p))
        questions == SubSeq(p, start + 1, end)
    IN  [ret |-> [s EXCEPT !.questions = questions,
                           !.currentIndex = 0,
                           !.answers = << >>,
                           !.bonusTriggered = FALSE,
                           !.stars = 0],
         poolIndex |-> end]

\* QuizEngine.getRetrySession: [ret, poolIndex]
getRetrySession(s, p, pIndex) ==
    LET questionCount == regularCountOf(s.isGrandQuiz)
        start == pIndex
        end == Min(start + questionCount, Len(p))
        questions == SubSeq(p, start + 1, end)
    IN  IF Len(questions) < questionCount
        THEN [ret |-> [s EXCEPT !.questions = SubSeq(p, 1, Min(questionCount, Len(p))),
                                !.currentIndex = 0,
                                !.answers = << >>,
                                !.bonusTriggered = FALSE,
                                !.stars = 0],
              poolIndex |-> 0]
        ELSE [ret |-> [s EXCEPT !.questions = questions,
                                !.currentIndex = 0,
                                !.answers = << >>,
                                !.bonusTriggered = FALSE,
                                !.stars = 0],
              poolIndex |-> end]

\* calculateResult with the ratio test strict
calculateResult_strictRatio(s) ==
    LET totalQuestions == Len(s.answers)
        correctAnswers == CountCorrect(s.answers, TRUE)
        regularCount == regularCountOf(s.isGrandQuiz)
        regularCorrect ==
            CountCorrect(SubSeq(s.answers, 1, Min(regularCount, Len(s.answers))), TRUE)
        bonusCorrect ==
            IF Len(s.answers) > regularCount
            THEN s.answers[regularCount + 1].correct
            ELSE FALSE
        stars ==
            IF regularCorrect = regularCount THEN 3
            ELSE IF s.bonusTriggered
            THEN (IF bonusCorrect THEN 2 ELSE 1)
            ELSE (IF 2 * correctAnswers > regularCount THEN 1 ELSE 0)
    IN  [totalQuestions |-> totalQuestions,
         correctAnswers |-> correctAnswers,
         stars |-> stars,
         bonusUsed |-> s.bonusTriggered]

\* calculateResult that reads the last regular answer as the bonus answer
calculateResult_bonusIndex(s) ==
    LET totalQuestions == Len(s.answers)
        correctAnswers == CountCorrect(s.answers, TRUE)
        regularCount == regularCountOf(s.isGrandQuiz)
        regularCorrect ==
            CountCorrect(SubSeq(s.answers, 1, Min(regularCount, Len(s.answers))), TRUE)
        bonusCorrect ==
            IF Len(s.answers) >= regularCount
            THEN s.answers[regularCount].correct
            ELSE FALSE
        stars ==
            IF regularCorrect = regularCount THEN 3
            ELSE IF s.bonusTriggered
            THEN (IF bonusCorrect THEN 2 ELSE 1)
            ELSE (IF 2 * correctAnswers >= regularCount THEN 1 ELSE 0)
    IN  [totalQuestions |-> totalQuestions,
         correctAnswers |-> correctAnswers,
         stars |-> stars,
         bonusUsed |-> s.bonusTriggered]

\* QuizEngine.calculateResult
calculateResult(s) ==
    LET totalQuestions == Len(s.answers)
        correctAnswers == CountCorrect(s.answers, TRUE)
        regularCount == regularCountOf(s.isGrandQuiz)
        regularCorrect ==
            CountCorrect(SubSeq(s.answers, 1, Min(regularCount, Len(s.answers))), TRUE)
        bonusCorrect ==
            IF Len(s.answers) > regularCount
            THEN s.answers[regularCount + 1].correct
            ELSE FALSE
        stars ==
            IF regularCorrect = regularCount THEN 3
            ELSE IF s.bonusTriggered
            THEN (IF bonusCorrect THEN 2 ELSE 1)
            \* ratio >= 0.5 with ratio = correctAnswers / regularCount
            ELSE (IF 2 * correctAnswers >= regularCount THEN 1 ELSE 0)
    IN  [totalQuestions |-> totalQuestions,
         correctAnswers |-> correctAnswers,
         stars |-> stars,
         bonusUsed |-> s.bonusTriggered]

----------------------------------------------------------------------------
(* The options submitted.  A question has the four options A to D and any  *)
(* of them can be submitted.  The model follows every answer sheet of a    *)
(* regular quiz and of a bonus question; of the 20 regular questions of a  *)
(* grand quiz it follows the sheets right..right wrong..wrong with at most *)
(* MaxGrandWrong wrong answers, each one of the first MaxGrandWrongOptions *)
(* options after the correct one.                                          *)

\* the first n option ids after the correct one, in the order A B C D A
WrongOptions(correctOptionId, n) ==
    LET i == CHOOSE k \in 1..Len(Letters) : Letters[k] = correctOptionId
    IN  {Letters[((i - 1 + k) % Len(Letters)) + 1] : k \in 1..Min(n, Len(Letters) - 1)}

Choices(s) ==
    IF s.currentIndex >= Len(s.questions) THEN OptionIds
    ELSE LET q == s.questions[s.currentIndex + 1]
             regularCount == regularCountOf(s.isGrandQuiz)
             free == ~s.isGrandQuiz \/ s.currentIndex >= regularCount
             lastWrong == Len(s.answers) > 0 /\ ~s.answers[Len(s.answers)].correct
             noneWrong == CountCorrect(s.answers, FALSE) = 0
         IN  IF free THEN OptionIds
             ELSE (IF noneWrong THEN {q.correctOptionId} ELSE {})
                  \cup
                  (IF lastWrong \/ s.currentIndex >= regularCount - MaxGrandWrong
                   THEN WrongOptions(q.correctOptionId, MaxGrandWrongOptions)
                   ELSE {})

----------------------------------------------------------------------------
(* The engine called freely by a caller that holds one session value       *)

Init ==
    /\ generators = [id \in RegisteredIds |-> LimitsGenerator]
    /\ pool = << >>
    /\ poolIndex = 0
    /\ session = NoSession
    /\ call = NoCall
    /\ bonusCalls = 0
    /\ mounted = FALSE
    /\ selectedOption = NoOption
    /\ showFeedback = FALSE
    /\ timers = << >>
    /\ completed = NoResult
    /\ session2 = NoSession
    /\ served = {}
    /\ poolOwner = 0
    /\ wrapped = FALSE
    /\ calls = 0
    /\ registered = <<LimitsGenerator>>
    /\ screen = "Home"
    /\ cache = [l \in Lessons |-> NoInfo]
    /\ loaded = FALSE
    /\ reading = NoRead
    /\ intervals = [l \in Lessons |-> 0]
    /\ storage = NoItem

CreateSession ==
    \E generatorId \in GeneratorIds, isGrandQuiz \in BOOLEAN, seed \in 0..(MaxSeed - 1) :
        LET r == createSession(generators, poolIndex, "course", "unit",
                               generatorId, isGrandQuiz, seed)
        IN  /\ session' = r.ret
            /\ pool' = r.pool
            /\ poolIndex' = r.poolIndex
            /\ call' = [op |-> "createSession", generatorId |-> generatorId,
                        isGrandQuiz |-> isGrandQuiz]
            /\ bonusCalls' = 0
            /\ UNCHANGED <<generators, screenVars, scenarioVars>>

SubmitAnswer ==
    /\ session # NoSession
    /\ \E selectedOptionId \in Choices(session) :
        /\ session' = submitAnswer(session, selectedOptionId)
        /\ call' = [op |-> "submitAnswer", selectedOptionId |-> selectedOptionId,
                    index |-> session.currentIndex]
    /\ UNCHANGED <<generators, pool, poolIndex, bonusCalls, screenVars, scenarioVars>>

CheckQuizState ==
    /\ session # NoSession
    /\ call' = [op |-> "checkQuizState", ret |-> checkQuizState(session)]
    /\ UNCHANGED <<generators, pool, poolIndex, session, bonusCalls, screenVars, scenarioVars>>

AddBonusQuestion ==
    /\ session # NoSession
    /\ bonusCalls < MaxBonusCalls
    /\ LET r == addBonusQuestion(session, pool, poolIndex)
       IN  /\ session' = r.ret
           /\ poolIndex' = r.poolIndex
    /\ call' = [op |-> "addBonusQuestion"]
    /\ bonusCalls' = bonusCalls + 1
    /\ UNCHANGED <<generators, pool, screenVars, scenarioVars>>

GetRetrySession ==
    /\ session # NoSession
    /\ LET r == getRetrySession(session, pool, poolIndex)
       IN  /\ session' = r.ret
           /\ poolIndex' = r.poolIndex
    /\ call' = [op |-> "getRetrySession"]
    /\ bonusCalls' = bonusCalls
    /\ UNCHANGED <<generators, pool, screenVars, scenarioVars>>

CalculateResult ==
    /\ session # NoSession
    /\ call' = [op |-> "calculateResult", arg |-> session,
                 ret |-> calculateResult(session)]
    /\ UNCHANGED <<generators, pool, poolIndex, session, bonusCalls, screenVars, scenarioVars>>

Next ==
    \/ CreateSession
    \/ SubmitAnswer
    \/ CheckQuizState
    \/ AddBonusQuestion
    \/ GetRetrySession
    \/ CalculateResult

Spec == Init /\ [][Next]_vars

----------------------------------------------------------------------------
(* The engine driven by QuizScreen                                         *)

\* App renders the Quiz screen and QuizScreen mounts: the useEffect that
\* creates the session
QuizScreenMounts(isGrandQuiz) ==
    /\ ~mounted
    /\ \E generatorId \in GeneratorIds, seed \in 0..(MaxSeed - 1) :
        LET r == createSession(generators, poolIndex, "course", "unit",
                               generatorId, isGrandQuiz, seed)
        IN  /\ session' = r.ret
            /\ pool' = r.pool
            /\ poolIndex' = r.poolIndex
            /\ call' = [op |-> "createSession", generatorId |-> generatorId,
                        isGrandQuiz |-> isGrandQuiz]
    /\ mounted' = TRUE
    /\ screen' = "Quiz"
    /\ selectedOption' = NoOption
    /\ showFeedback' = FALSE
    /\ completed' = NoResult
    /\ UNCHANGED <<generators, bonusCalls, timers, scenarioVars>>

\* QuizScreen mounted with either value of its isGrandQuiz prop
QuizScreenMount == \E isGrandQuiz \in BOOLEAN : QuizScreenMounts(isGrandQuiz)

\* QuizScreen.handleOptionSelect
handleOptionSelect ==
    /\ mounted
    /\ session # NoSession
    /\ session.currentIndex < Len(session.questions)
    /\ ~showFeedback
    /\ \E optionId \in OptionIds : selectedOption' = optionId
    /\ UNCHANGED <<engineVars, mounted, showFeedback, timers, completed, screen>>

\* the pending callbacks once the screen they belong to is unmounted
unmounted(ts) == [i \in 1..Len(ts) |-> [ts[i] EXCEPT !.live = FALSE]]

\* QuizScreen.handleSubmit up to the setTimeout call, for the answer sheets
\* the model follows and while fewer than MaxTimeouts callbacks are pending
handleSubmit ==
    /\ mounted
    /\ ~showFeedback
    /\ selectedOption # NoOption
    /\ session # NoSession
    /\ selectedOption \in Choices(session)
    /\ Len(timers) < MaxTimeouts
    /\ showFeedback' = TRUE
    /\ timers' = Append(timers, [session |-> session, selectedOption |-> selectedOption,
                                 live |-> TRUE])
    /\ UNCHANGED <<engineVars, mounted, selectedOption, completed, screen>>

\* the callback handleSubmit hands to setTimeout; all have the same delay, so
\* the oldest fires first.  Nothing cancels it, so it also runs after its
\* screen was unmounted (live is FALSE); the state setters of an unmounted
\* component change nothing, the engine calls and onComplete act as always.
handleSubmitTimeout ==
    /\ timers # << >>
    /\ LET timer == Head(timers)
           updated == submitAnswer(timer.session, timer.selectedOption)
           state == checkQuizState(updated)
       IN  IF state = "bonus_needed"
           THEN LET r == addBonusQuestion(updated, pool, poolIndex)
                IN  /\ session' = (IF timer.live THEN r.ret ELSE session)
                    /\ poolIndex' = r.poolIndex
                    /\ call' = [op |-> "addBonusQuestion"]
                    /\ selectedOption' = (IF timer.live THEN NoOption ELSE selectedOption)
                    /\ showFeedback' = (IF timer.live THEN FALSE ELSE showFeedback)
                    /\ timers' = Tail(timers)
                    /\ UNCHANGED <<mounted, completed, screen>>
           ELSE IF state = "complete"
           THEN /\ completed' = calculateResult(updated)
                /\ call' = [op |-> "calculateResult", arg |-> updated,
                            ret |-> calculateResult(updated)]
                \* onComplete is App's navigateToQuizResult: the Quiz screen goes
                /\ screen' = "QuizResult"
                /\ mounted' = FALSE
                /\ timers' = unmounted(Tail(timers))
                /\ UNCHANGED <<session, poolIndex, selectedOption, showFeedback>>
           ELSE /\ session' = (IF timer.live THEN updated ELSE session)
                /\ call' = [op |-> "checkQuizState", ret |-> state]
                /\ selectedOption' = (IF timer.live THEN NoOption ELSE selectedOption)
                /\ showFeedback' = (IF timer.live THEN FALSE ELSE showFeedback)
                /\ timers' = Tail(timers)
                /\ UNCHANGED <<poolIndex, mounted, completed, screen>>
    /\ UNCHANGED <<generators, pool, bonusCalls, scenarioVars>>

NextScreen ==
    \/ QuizScreenMount
    \/ handleOptionSelect
    \/ handleSubmit
    \/ handleSubmitTimeout

SpecScreen == Init /\ [][NextScreen]_vars

----------------------------------------------------------------------------
(* App: navigation between the screens, with the Quiz screen inside        *)

\* the parts of the state App's navigation outside the Quiz screen leaves alone
quizVars == <<engineVars, mounted, selectedOption, showFeedback, timers, completed>>

\* App.navigateToCourse, HomeScreen's onCoursePress
navigateToCourse ==
    /\ screen = "Home"
    /\ screen' = "CourseDetail"
    /\ UNCHANGED quizVars

\* App.navigateToUnit, CourseDetailScreen's onUnitPress
navigateToUnit ==
    /\ screen = "CourseDetail"
    /\ screen' = "UnitDetail"
    /\ UNCHANGED quizVars

\* App.navigateToLesson, UnitDetailScreen's onLessonPress
navigateToLesson ==
    /\ screen = "UnitDetail"
    /\ screen' = "LessonDetail"
    /\ UNCHANGED quizVars

\* App.navigateToQuiz, UnitDetailScreen's onQuizPress: the screen it sets has
\* no isGrandQuiz, so QuizScreen takes its default
navigateToQuiz ==
    /\ screen = "UnitDetail"
    /\ QuizScreenMounts(FALSE)

\* QuizResultScreen's onRetry
onRetry ==
    /\ screen = "QuizResult"
    /\ QuizScreenMounts(FALSE)

\* App.goBack, the onBack of every screen but Home.  Leaving the Quiz screen
\* unmounts QuizScreen and drops its state; the timeouts it scheduled stay.
goBack ==
    /\ screen # "Home"
    /\ screen' = (IF screen = "CourseDetail" THEN "Home"
                  ELSE IF screen = "UnitDetail" THEN "CourseDetail"
                  ELSE "UnitDetail")
    /\ IF screen = "Quiz"
       THEN /\ mounted' = FALSE
            /\ session' = NoSession
            /\ selectedOption' = NoOption
            /\ showFeedback' = FALSE
            /\ timers' = unmounted(timers)
            /\ UNCHANGED <<generators, pool, poolIndex, call, bonusCalls,
                           scenarioVars, completed>>
       ELSE UNCHANGED quizVars

NextApp ==
    \/ navigateToCourse
    \/ navigateToUnit
    \/ navigateToLesson
    \/ navigateToQuiz
    \/ onRetry
    \/ goBack
    \/ handleOptionSelect
    \/ handleSubmit
    \/ handleSubmitTimeout

SpecApp == Init /\ [][NextApp]_vars

----------------------------------------------------------------------------
(* DownloadService, driven by the lesson list's download button            *)
(* DownloadInfo.updatedAt (Date.now()) is left out: nothing reads it.      *)

\* what the DownloadService actions leave alone
nonDownloadVars == <<generators, pool, poolIndex, session, call, bonusCalls, screenVars,
                     session2, served, poolOwner, wrapped, calls, registered>>

\* JSON.stringify(this.cache): an object with the keys the cache has
stringify(c) == [l \in {k \in Lessons : c[k] # NoInfo} |-> c[l]]

\* JSON.parse(raw) read as a cache: a lesson with no key has no entry
parse(raw) == [l \in Lessons |-> IF l \in DOMAIN raw THEN raw[l] ELSE NoInfo]

\* DownloadServiceClass.persist: the value it hands to AsyncStorage.setItem
persist(c) == stringify(c)

\* DownloadServiceClass.getStatus
getStatus(c, lessonId) ==
    IF c[lessonId] = NoInfo
    THEN [status |-> "not_downloaded", progress |-> 0]
    ELSE c[lessonId]

\* DownloadServiceClass.startDownload: the new cache, intervals and stored item
startDownload(c, ivs, lessonId) ==
    LET c2 == [c EXCEPT ![lessonId] = [status |-> "downloading", progress |-> 0]]
    IN  [cache |-> c2,
         intervals |-> [ivs EXCEPT ![lessonId] = @ + 1],
         storage |-> persist(c2)]

\* DownloadServiceClass.removeDownload
removeDownload(c, ivs, lessonId) ==
    LET c2 == [c EXCEPT ![lessonId] = NoInfo]
    IN  [cache |-> c2, intervals |-> ivs, storage |-> persist(c2)]

\* DownloadServiceClass.init up to its await: App's mount effect calls it once
\* per process
DownloadInit ==
    /\ ~loaded
    /\ ~reading.pending
    /\ reading' = [pending |-> TRUE, raw |-> storage]
    /\ UNCHANGED <<cache, loaded, intervals, storage, nonDownloadVars>>

\* DownloadServiceClass.init after its await.  getItem resolves with the item
\* as it was when init called it or as it is now: AsyncStorage does not say how
\* it orders a read with the writes issued meanwhile.
DownloadInitLoaded ==
    /\ reading.pending
    /\ \E raw \in {reading.raw, storage} :
          cache' = (IF raw # NoItem THEN parse(raw) ELSE cache)
    /\ loaded' = TRUE
    /\ reading' = NoRead
    /\ UNCHANGED <<intervals, storage, nonDownloadVars>>

\* DownloadServiceClass.toggle, the download button of the lesson list.  App
\* calls init in its mount effect, before a press can be handled.
DownloadToggle ==
    /\ loaded \/ reading.pending
    /\ \E lessonId \in Lessons :
          LET info == getStatus(cache, lessonId)
              r == IF info.status = "downloaded"
                   THEN removeDownload(cache, intervals, lessonId)
                   ELSE IF info.status = "not_downloaded"
                   THEN startDownload(cache, intervals, lessonId)
                   ELSE [cache |-> cache, intervals |-> intervals, storage |-> storage]
          IN  /\ info.status # "downloading"
              /\ cache' = r.cache
              /\ intervals' = r.intervals
              /\ storage' = r.storage
    /\ UNCHANGED <<loaded, reading, nonDownloadVars>>

\* one firing of the setInterval callback of startDownload(lessonId)
DownloadInterval(lessonId) ==
    /\ intervals[lessonId] > 0
    /\ LET info == cache[lessonId]
       IN  IF info = NoInfo \/ info.status # "downloading"
           THEN /\ intervals' = [intervals EXCEPT ![lessonId] = @ - 1]
                /\ UNCHANGED <<cache, storage>>
           ELSE \E k \in 0..(MaxRandom - 1) :
                  LET progress == Min(info.progress + 15 + ((20 * k) \div MaxRandom), 100)
                  IN  IF progress >= 100
                      THEN LET c2 == [cache EXCEPT ![lessonId] =
                                        [status |-> "downloaded", progress |-> progress]]
                           IN  /\ cache' = c2
                               /\ storage' = persist(c2)
                               /\ intervals' = [intervals EXCEPT ![lessonId] = @ - 1]
                      ELSE /\ cache' = [cache EXCEPT ![lessonId].progress = progress]
                           /\ UNCHANGED <<intervals, storage>>
    /\ UNCHANGED <<loaded, reading, nonDownloadVars>>

\* the app is closed and started again: the service object is constructed
\* anew, its intervals are gone, the stored item stays
AppRestart ==
    /\ cache' = [l \in Lessons |-> NoInfo]
    /\ loaded' = FALSE
    /\ reading' = NoRead
    /\ intervals' = [l \in Lessons |-> 0]
    /\ UNCHANGED <<storage, nonDownloadVars>>

NextDownloads ==
    \/ DownloadInit
    \/ DownloadInitLoaded
    \/ DownloadToggle
    \/ \E lessonId \in Lessons : DownloadInterval(lessonId)
    \/ AppRestart

SpecDownloads == Init /\ [][NextDownloads]_vars

\* timers keep firing, App calls init when it starts and the read it awaits
\* resolves; nothing obliges the user to press a button, and the app is not
\* restarted for ever
SpecDownloadsFair ==
    /\ SpecDownloads
    /\ \A lessonId \in Lessons : WF_vars(DownloadInterval(lessonId))
    /\ WF_vars(DownloadInit)
    /\ WF_vars(DownloadInitLoaded)
    /\ <>[][~AppRestart]_vars

----------------------------------------------------------------------------
(* Properties                                                              *)

\* what the specification calls regularCount
RegularCount(s) == IF s.isGrandQuiz THEN 20 ELSE 4

\* number of incorrect answers among the first n answers
WrongAmongFirst(answers, n) ==
    Cardinality({i \in 1..Len(answers) : i <= n /\ ~answers[i].correct})

\* C1: in every session reached through createSession, submitAnswer,
\* addBonusQuestion and getRetrySession, answers.length equals currentIndex.
C1_AnswersMatchIndex ==
    session # NoSession => Len(session.answers) = session.currentIndex

\* a retry session that has been answered again after an attempt with a bonus
C1_Witness ==
    /\ session # NoSession
    /\ bonusCalls > 0
    /\ ~session.bonusTriggered
    /\ session.currentIndex = Len(session.questions)
    /\ call.op = "submitAnswer"

\* C2: a regular attempt driven by the quiz screen ends with 3 stars and no
\* bonus after no wrong answer, goes through the bonus question after exactly
\* one wrong answer and ends with 2 stars if the bonus answer is correct and
\* 1 star if not, ends with 1 star and no bonus after two wrong answers and
\* with 0 stars and no bonus after three or four.
C2_ScreenOutcome ==
    /\ (completed # NoResult /\ call.op = "calculateResult" /\ ~call.arg.isGrandQuiz) =>
          LET a == call.arg.answers
              w == WrongAmongFirst(a, 4)
          IN  /\ Len(a) >= 4
              /\ w = 0 => (Len(a) = 4 /\ completed.stars = 3 /\ ~completed.bonusUsed)
              /\ w = 1 => /\ Len(a) = 5
                          /\ completed.bonusUsed
                          /\ completed.stars = (IF a[5].correct THEN 2 ELSE 1)
              /\ w = 2 => (Len(a) = 4 /\ completed.stars = 1 /\ ~completed.bonusUsed)
              /\ w >= 3 => (Len(a) = 4 /\ completed.stars = 0 /\ ~completed.bonusUsed)
    /\ (mounted /\ session # NoSession /\ ~session.isGrandQuiz
          /\ session.currentIndex >= 4) =>
          /\ session.currentIndex = 4
          /\ WrongAmongFirst(session.answers, 4) = 1
          /\ session.bonusTriggered
          /\ Len(session.questions) = 5

\* a regular attempt completed through a correctly answered bonus question
C2_Witness ==
    /\ completed # NoResult
    /\ call.op = "calculateResult"
    /\ ~call.arg.isGrandQuiz
    /\ completed.stars = 2
    /\ completed.bonusUsed

\* the star policy of the specification
StarPolicy(s) ==
    LET rc == RegularCount(s)
        a == s.answers
    IN  IF Len(a) >= rc /\ \A i \in 1..rc : a[i].correct
        THEN 3
        ELSE IF s.bonusTriggered
        THEN (IF Len(a) > rc /\ a[rc + 1].correct THEN 2 ELSE 1)
        ELSE (IF 2 * Cardinality({i \in 1..Len(a) : a[i].correct}) >= rc THEN 1 ELSE 0)

\* C3: calculateResult gives 3 stars when all regular answers are correct;
\* otherwise, with the bonus triggered, 2 stars when the bonus answer is
\* correct and 1 when it is incorrect or absent; otherwise 1 star when at
\* least half of regularCount answers are correct and 0 stars below that.
C3_StarPolicy ==
    call.op = "calculateResult" =>
        /\ call.ret.stars = StarPolicy(call.arg)
        /\ call.ret.totalQuestions = Len(call.arg.answers)
        /\ call.ret.bonusUsed = call.arg.bonusTriggered

\* a grand quiz with no bonus scored 1 star on exactly half correct answers
C3_Witness ==
    /\ call.op = "calculateResult"
    /\ call.arg.isGrandQuiz
    /\ ~call.arg.bonusTriggered
    /\ Len(call.arg.answers) = 20
    /\ WrongAmongFirst(call.arg.answers, 20) = 10
    /\ call.ret.stars = 1

\* C4: checkState is continue while currentIndex < regularCount; at
\* currentIndex = regularCount with no bonus triggered it is bonus_needed
\* after exactly one wrong regular answer and complete after none or after
\* two or more; in every other case it is complete.
C4_CheckState ==
    (call.op = "checkQuizState" /\ session # NoSession) =>
        LET rc == RegularCount(session)
            w == WrongAmongFirst(session.answers, rc)
        IN  call.ret =
              IF session.currentIndex < rc THEN "continue"
              ELSE IF session.currentIndex = rc /\ ~session.bonusTriggered
              THEN (IF w = 1 THEN "bonus_needed" ELSE "complete")
              ELSE "complete"

\* checkState asked for a bonus on a grand quiz with one wrong answer
C4_Witness ==
    /\ call.op = "checkQuizState"
    /\ session # NoSession
    /\ session.isGrandQuiz
    /\ call.ret = "bonus_needed"

\* C5: driven by the quiz screen, a session gets a bonus question only when
\* exactly one of its regular questions was answered incorrectly.
C5_BonusOnlyAfterOneMiss ==
    /\ (session # NoSession
          /\ (session.bonusTriggered
               \/ Len(session.questions) > RegularCount(session))) =>
          /\ Len(session.answers) >= RegularCount(session)
          /\ WrongAmongFirst(session.answers, RegularCount(session)) = 1
    /\ (completed # NoResult /\ call.op = "calculateResult") =>
          (completed.bonusUsed <=>
             WrongAmongFirst(call.arg.answers, RegularCount(call.arg)) = 1)

\* the screen appended a bonus question to a grand quiz
C5_Witness ==
    /\ session # NoSession
    /\ mounted
    /\ session.isGrandQuiz
    /\ session.bonusTriggered
    /\ Len(session.questions) = 21

\* C6: createSession with an unregistered generator identifier returns null.
C6_UnknownGeneratorNull ==
    (call.op = "createSession" /\ call.generatorId \notin DOMAIN generators) =>
        session = NoSession

\* createSession was called for a grand quiz on an unregistered identifier
C6_Witness ==
    /\ call.op = "createSession"
    /\ call.generatorId \notin DOMAIN generators
    /\ call.isGrandQuiz
    /\ session = NoSession

\* C7: a successful createSession leaves a pool of regularCount x 5
\* questions, returns the first regularCount of them in pool order with
\* currentIndex 0, no answers and no bonus, and leaves the cursor at
\* regularCount.
C7_CreateSessionBatch ==
    (call.op = "createSession" /\ session # NoSession) =>
        LET rc == IF call.isGrandQuiz THEN 20 ELSE 4
        IN  /\ Len(pool) = rc * 5
            /\ Len(session.questions) = rc
            /\ \A i \in 1..rc : session.questions[i] = pool[i]
            /\ session.currentIndex = 0
            /\ session.answers = << >>
            /\ session.bonusTriggered = FALSE
            /\ session.isGrandQuiz = call.isGrandQuiz
            /\ poolIndex = rc

\* a grand quiz session was created
C7_Witness ==
    /\ call.op = "createSession"
    /\ session # NoSession
    /\ call.isGrandQuiz
    /\ Len(pool) = 100

\* C8: submitAnswer before the end of the questions appends one answer for
\* the question at currentIndex, correct exactly when the selected option is
\* that question's correct option, advances currentIndex by 1 and changes
\* nothing else of the session or of the engine.
C8_SubmitAppends ==
    [][(call'.op = "submitAnswer" /\ session.currentIndex < Len(session.questions)) =>
          LET q == session.questions[session.currentIndex + 1]
              opt == call'.selectedOptionId
          IN  /\ Len(session'.answers) = Len(session.answers) + 1
              /\ \A i \in 1..Len(session.answers) :
                    session'.answers[i] = session.answers[i]
              /\ session'.answers[Len(session'.answers)] =
                    [questionId |-> q.id, selectedOptionId |-> opt,
                     correct |-> (opt = q.correctOptionId)]
              /\ session'.currentIndex = session.currentIndex + 1
              /\ session'.questions = session.questions
              /\ session'.bonusTriggered = session.bonusTriggered
              /\ session'.isGrandQuiz = session.isGrandQuiz
              /\ session'.stars = session.stars
              /\ pool' = pool
              /\ poolIndex' = poolIndex]_vars

\* a wrong answer was appended to a question whose correct option is not A
C8_Witness ==
    /\ call.op = "submitAnswer"
    /\ session # NoSession
    /\ call.index < Len(session.questions)
    /\ Len(session.answers) = call.index + 1
    /\ ~session.answers[call.index + 1].correct
    /\ session.questions[call.index + 1].correctOptionId # "A"

\* C9: submitAnswer at or beyond the end of the questions returns the
\* session unchanged.
C9_SubmitPastEndNoOp ==
    [][(call'.op = "submitAnswer" /\ session.currentIndex >= Len(session.questions)) =>
          /\ session' = session
          /\ pool' = pool
          /\ poolIndex' = poolIndex]_vars

\* submitAnswer was called on a session already at its last question
C9_Witness ==
    /\ call.op = "submitAnswer"
    /\ session # NoSession
    /\ call.index >= Len(session.questions)
    /\ session.currentIndex = call.index

\* C10: with pool entries left, addBonusQuestion appends the entry at the
\* cursor to the questions, advances the cursor by 1, sets bonusTriggered
\* and leaves currentIndex and answers unchanged.
C10_BonusFromCursor ==
    [][(call'.op = "addBonusQuestion" /\ poolIndex < Len(pool)) =>
          /\ session'.questions = Append(session.questions, pool[poolIndex + 1])
          /\ poolIndex' = poolIndex + 1
          /\ session'.bonusTriggered = TRUE
          /\ session'.currentIndex = session.currentIndex
          /\ session'.answers = session.answers
          /\ pool' = pool]_vars

\* a bonus question was appended after a retry had moved the cursor
C10_Witness ==
    /\ call.op = "addBonusQuestion"
    /\ session # NoSession
    /\ poolIndex > RegularCount(session) + 1
    /\ Len(session.questions) = RegularCount(session) + 1
    /\ session.questions[Len(session.questions)] = pool[poolIndex]


\* ---- two callers driving the one exported engine ----

Callers == {1, 2}

\* the session value caller h holds
sess(h) == IF h = 1 THEN session ELSE session2

\* pool positions a createSession result has handed out
servedByCreate(r) ==
    IF r.ret = NoSession THEN {} ELSE 0..(r.poolIndex - 1)

\* pool positions handed out once addBonusQuestion ran at cursor pIndex on pool p
servedByBonus(old, p, pIndex) ==
    IF pIndex < Len(p) THEN old \cup {pIndex} ELSE old

\* pool positions handed out once getRetrySession returned r
servedByRetry(old, r) ==
    LET n == Len(r.ret.questions)
    IN  old \cup (IF r.poolIndex = 0 THEN 0..(n - 1)
                  ELSE (r.poolIndex - n)..(r.poolIndex - 1))

CallerCreateSession(h) ==
    \E generatorId \in GeneratorIds, isGrandQuiz \in BOOLEAN, seed \in 0..(MaxSeed - 1) :
        LET r == createSession(generators, poolIndex, "course", "unit",
                               generatorId, isGrandQuiz, seed)
        IN  /\ session' = IF h = 1 THEN r.ret ELSE session
            /\ session2' = IF h = 2 THEN r.ret ELSE session2
            /\ pool' = r.pool
            /\ poolIndex' = r.poolIndex
            /\ call' = [op |-> "createSession", who |-> h, ret |-> r.ret]
            /\ bonusCalls' = 0
            /\ served' = servedByCreate(r)
            /\ poolOwner' = h
            /\ wrapped' = FALSE
            /\ UNCHANGED <<generators, registered, downloadVars, screenVars>>

CallerAddBonusQuestion(h) ==
    /\ sess(h) # NoSession
    /\ bonusCalls < MaxBonusCalls
    /\ Len(sess(h).questions) < regularCountOf(sess(h).isGrandQuiz) + MaxBonusCalls
    /\ LET r == addBonusQuestion(sess(h), pool, poolIndex)
       IN  /\ session' = IF h = 1 THEN r.ret ELSE session
           /\ session2' = IF h = 2 THEN r.ret ELSE session2
           /\ poolIndex' = r.poolIndex
           /\ call' = [op |-> "addBonusQuestion", who |-> h,
                       arg |-> sess(h), ret |-> r.ret]
    /\ bonusCalls' = bonusCalls + 1
    /\ served' = servedByBonus(served, pool, poolIndex)
    /\ UNCHANGED <<generators, pool, poolOwner, wrapped, registered, downloadVars, screenVars>>

CallerGetRetrySession(h) ==
    /\ sess(h) # NoSession
    /\ LET r == getRetrySession(sess(h), pool, poolIndex)
       IN  /\ session' = IF h = 1 THEN r.ret ELSE session
           /\ session2' = IF h = 2 THEN r.ret ELSE session2
           /\ poolIndex' = r.poolIndex
           /\ call' = [op |-> "getRetrySession", who |-> h,
                       arg |-> sess(h), ret |-> r.ret]
           /\ served' = servedByRetry(served, r)
           /\ wrapped' = (wrapped \/ r.poolIndex = 0)
    /\ UNCHANGED <<generators, pool, bonusCalls, poolOwner, registered, downloadVars, screenVars>>

\* one caller owns the engine: create, bonus and retry calls in any order
NextRetry ==
    \/ CallerCreateSession(1) /\ UNCHANGED calls
    \/ CallerAddBonusQuestion(1) /\ UNCHANGED calls
    \/ CallerGetRetrySession(1) /\ UNCHANGED calls

SpecRetry == Init /\ [][NextRetry]_vars

\* one more engine call, of the MaxCalls the two callers make
Counted ==
    /\ calls < MaxCalls
    /\ calls' = calls + 1

\* two callers' calls on the one engine, interleaved in any order
NextCallers ==
    \E h \in Callers :
        \/ CallerCreateSession(h) /\ Counted
        \/ CallerAddBonusQuestion(h) /\ Counted
        \/ CallerGetRetrySession(h) /\ Counted

SpecCallers == Init /\ [][NextCallers]_vars


\* ---- the registry and the generators called directly ----

\* the generator objects handed to register after LimitsGenerator, which Init
\* has registered
Generators ==
    {DerivativesBasicGenerator, IntegralsGenerator,
     GenericMathGenerator("kinematics"), GenericMathGenerator_fallback("kinematics")}

\* the ids generateQuestions is asked for
RegistryIds == {"limits", "derivatives_basic", "integrals_basic", "kinematics",
                "unknown_topic"}

\* the difficulty distributions passed: the default and one with more
\* entries than MaxCount
Distributions ==
    {DEFAULT_DISTRIBUTION,
     [easy |-> 3, medium |-> 0, hard |-> 4]}

Register ==
    /\ Len(registered) < 1 + MaxRegistrations
    /\ \E generator \in Generators :
          /\ generators' = register(generators, generator)
          /\ registered' = Append(registered, generator)
          /\ call' = [op |-> "register", generator |-> generator]
    /\ UNCHANGED <<pool, poolIndex, session, bonusCalls, screenVars,
                   session2, served, poolOwner, wrapped, calls, downloadVars>>

RegistryGenerateQuestions ==
    /\ \E generatorId \in RegistryIds, count \in 0..MaxCount,
          distribution \in Distributions, seed \in 0..(MaxShuffle - 1) :
          call' = [op |-> "generateQuestions", generatorId |-> generatorId,
                   count |-> count, distribution |-> distribution, seed |-> seed,
                   ret |-> generateQuestions(generators, generatorId, count,
                                             distribution, seed)]
    /\ UNCHANGED <<generators, pool, poolIndex, session, bonusCalls, screenVars,
                   scenarioVars>>

GeneratorGenerate ==
    /\ \E generatorId \in DOMAIN generators, count \in 0..MaxCount,
          distribution \in Distributions, seed \in 0..(MaxShuffle - 1) :
          call' = [op |-> "generate", generator |-> generators[generatorId],
                   count |-> count, distribution |-> distribution, seed |-> seed,
                   ret |-> generatorGenerate(generators[generatorId], count,
                                             distribution, seed)]
    /\ UNCHANGED <<generators, pool, poolIndex, session, bonusCalls, screenVars,
                   scenarioVars>>

NextRegistry ==
    \/ Register
    \/ RegistryGenerateQuestions
    \/ GeneratorGenerate

SpecRegistry == Init /\ [][NextRegistry]_vars

\* ---- one question built by a generator ----

\* randInt(min, max): the values Math.floor(Math.random() * (max - min + 1)) + min takes
randInt(min, max) == min..max

\* `$${v}$`
math(v) == "$" \o ToString(v) \o "$"

\* the values of j = Math.floor(Math.random() * (i + 1)) drawn for i = 1, 2, 3
\* while four options are shuffled
ShuffleDraws == {<<j1, j2, j3>> : j1 \in 0..1, j2 \in 0..2, j3 \in 0..3}

\* buildQuestion: [correctOption, ...wrongOptions]
allOptionsOf(correctAnswer, distractors) ==
    <<[id |-> "correct", text |-> correctAnswer]>>
    \o [i \in 1..Len(distractors) |->
            [id |-> "wrong_" \o ToString(i - 1), text |-> distractors[i]]]

\* buildQuestion, the shuffle of the options from position i down to 1 with
\* the draws js (the sort with a random comparator of LimitsGenerator and
\* GenericMathGenerator likewise leaves some permutation of the options)
RECURSIVE shuffleOptions(_, _, _)
shuffleOptions(allOptions, i, js) ==
    IF i < 1
    THEN allOptions
    ELSE LET j == js[i]
         IN  shuffleOptions([allOptions EXCEPT ![i + 1] = allOptions[j + 1],
                                               ![j + 1] = allOptions[i + 1]],
                            i - 1, js)

\* labeled.find(o => o.text === correctAnswer): the first position with that text
findByText(labeled, text) ==
    CHOOSE i \in 1..Len(labeled) :
        /\ labeled[i].text = text
        /\ \A k \in 1..(i - 1) : labeled[k].text # text

\* buildQuestion that keeps the ids the options had before the shuffle
buildQuestion_keepIds(id, correctAnswer, distractors, difficulty, js) ==
    LET allOptions == shuffleOptions(allOptionsOf(correctAnswer, distractors),
                                     Len(distractors), js)
        correctId == allOptions[findByText(allOptions, correctAnswer)].id
    IN  [id |-> id, options |-> allOptions, correctOptionId |-> correctId,
         difficulty |-> difficulty]

\* buildQuestion (the question text and the explanation are left out)
buildQuestion(id, correctAnswer, distractors, difficulty, js) ==
    LET allOptions == shuffleOptions(allOptionsOf(correctAnswer, distractors),
                                     Len(distractors), js)
        labeled == [i \in 1..Len(allOptions) |->
                       [id |-> Letters[i], text |-> allOptions[i].text]]
        correctId == labeled[findByText(labeled, correctAnswer)].id
    IN  [id |-> id, options |-> labeled, correctOptionId |-> correctId,
         difficulty |-> difficulty]

\* LimitsGenerator.generateOne: the answer texts for the draws a, c, k, r1, r2
LimitsGenerator_generateOne(a, c, k, r1, r2) ==
    LET answer == c * a + k
    IN  [correctAnswer |-> math(answer),
         distractors |-> <<math(answer + r1), math(answer - r2),
                           math(c * (a + 1) + k)>>,
         difficulty |-> "easy"]

\* IntegralsGenerator.generateOne: the answer texts for the draws a, n
IntegralsGenerator_generateOne(a, n) ==
    LET coeff == a * (n + 1)
        term(cf, pw) == "$" \o ToString(cf) \o "x^{" \o ToString(pw) \o "} + C$"
    IN  [correctAnswer |-> term(a, n + 1),
         distractors |-> <<term(coeff, n + 1), term(a, n), term(coeff * n, n - 1)>>,
         difficulty |-> "medium"]

\* DerivativesBasicGenerator.easyQuestion: the answer texts for the draws k, n
easyQuestion(k, n) ==
    LET correctCoeff == k * n
        correctPow == n - 1
        pw(cf, p) == "$" \o ToString(cf) \o "x^{" \o ToString(p) \o "}$"
    IN  [correctAnswer |-> IF correctPow = 1
                           THEN "$" \o ToString(correctCoeff) \o "x$"
                           ELSE pw(correctCoeff, correctPow),
         distractors |-> <<pw(correctCoeff, n),
                           IF correctPow = 1
                           THEN "$" \o ToString(k) \o "x$"
                           ELSE pw(k, correctPow),
                           math(correctCoeff)>>,
         difficulty |-> "easy"]

\* DerivativesBasicGenerator.mediumQuestion, formatTerm
formatTerm(coeff, power) ==
    IF power = 0 THEN ToString(coeff)
    ELSE IF power = 1 THEN ToString(coeff) \o "x"
    ELSE ToString(coeff) \o "x^{" \o ToString(power) \o "}"

\* DerivativesBasicGenerator.mediumQuestion: the answer texts for the draws a, n, b, m
mediumQuestion(a, n, b, m) ==
    LET mActual == IF m = n THEN m + 1 ELSE m
        da == a * n
        dn == n - 1
        db == b * mActual
        dm == mActual - 1
    IN  [correctAnswer |-> "$" \o formatTerm(da, dn) \o " + " \o formatTerm(db, dm) \o "$",
         distractors |->
            <<"$" \o formatTerm(da, n) \o " + " \o formatTerm(db, mActual) \o "$",
              "$" \o formatTerm(a, dn) \o " + " \o formatTerm(b, dm) \o "$",
              "$" \o formatTerm(da, dn) \o " + " \o ToString(b) \o "$">>,
         difficulty |-> "medium"]

\* DerivativesBasicGenerator.hardQuestion: the answer texts for the draws a, b, n
hardQuestion(a, b, n) ==
    LET outerCoeff == n * a
        outerPow == n - 1
        inner == "(" \o ToString(a) \o "x + " \o ToString(b) \o ")"
        formatAnswer(coeff, pow) ==
            IF pow = 1
            THEN "$" \o ToString(coeff) \o inner \o "$"
            ELSE "$" \o ToString(coeff) \o inner \o "^{" \o ToString(pow) \o "}$"
    IN  [correctAnswer |-> formatAnswer(outerCoeff, outerPow),
         distractors |-> <<formatAnswer(n, outerPow),
                           formatAnswer(outerCoeff, n),
                           "$" \o ToString(n) \o inner \o "^{" \o ToString(outerPow) \o "}$">>,
         difficulty |-> "hard"]

\* GenericMathGenerator.generateAlgebraQuestion: the answer texts for the draw x
\* (the draws a and b appear in the question text only)
generateAlgebraQuestion(x) ==
    LET sol(v) == "$x = " \o ToString(v) \o "$"
    IN  [correctAnswer |-> sol(x),
         distractors |-> <<sol(x + 1), sol(x - 1), sol(0 - x)>>,
         difficulty |-> "medium"]

\* Array.prototype.sort((a, b) => a - b)
sortNumbers(nums) ==
    LET n == Len(nums)
        rank(i) == Cardinality({j \in 1..n : nums[j] < nums[i]}) +
                   Cardinality({j \in 1..i : nums[j] = nums[i]})
    IN  [k \in 1..n |-> nums[CHOOSE i \in 1..n : rank(i) = k]]

\* GenericMathGenerator.generateStatsQuestion: the answer texts for five draws
\* whose mean is an integer (with any other draws the function calls itself
\* and draws again)
generateStatsQuestion(draws) ==
    LET nums == sortNumbers(draws)
        sum == nums[1] + nums[2] + nums[3] + nums[4] + nums[5]
        mean == sum \div 5
    IN  [correctAnswer |-> math(mean),
         distractors |-> <<math(mean + 1), math(mean - 1), math(nums[3])>>,
         difficulty |-> "easy"]

\* GenericMathGenerator.generatePhysicsQuestion: the answer texts for the draws m, a
generatePhysicsQuestion(m, a) ==
    LET f == m * a
        newtons(v) == "$" \o ToString(v) \o "\\text{ N}$"
    IN  [correctAnswer |-> newtons(f),
         distractors |-> <<newtons(f + m), newtons(m), newtons(a)>>,
         difficulty |-> "easy"]

\* GenericMathGenerator.generateCalculusQuestion: it draws nothing
generateCalculusQuestion ==
    [correctAnswer |-> "Increasing",
     distractors |-> <<"Decreasing", "Constant", "Zero">>,
     difficulty |-> "easy"]

\* ids GenericMathGenerator objects are constructed with, one for each builder
GenericIds == {"anova", "kinematics", "derivatives_advanced", "analyzing_functions"}

\* one generateOne call of generator class: the answers t it drew, the draws js
\* of the shuffle, and the question buildQuestion returned
Built(class, idPrefix, t, js) ==
    [op |-> "generateOne", class |-> class,
     correctAnswer |-> t.correctAnswer, distractors |-> t.distractors, js |-> js,
     ret |-> buildQuestion(<<idPrefix, 0>>, t.correctAnswer, t.distractors,
                           t.difficulty, js)]

\* everything but the record of the call stays as it is
OnlyCall == UNCHANGED <<generators, pool, poolIndex, session, bonusCalls,
                        screenVars, scenarioVars>>

LimitsGenerateOne ==
    /\ call = NoCall
    /\ \E a \in randInt(-5, 5), c \in randInt(2, 5), k \in randInt(-10, 10),
          r1 \in randInt(1, 4), r2 \in randInt(1, 4), js \in ShuffleDraws :
          call' = Built("LimitsGenerator", "limits",
                        LimitsGenerator_generateOne(a, c, k, r1, r2), js)
    /\ OnlyCall

IntegralsGenerateOne ==
    /\ call = NoCall
    /\ \E a \in randInt(2, 6), n \in randInt(1, 4), js \in ShuffleDraws :
          call' = Built("IntegralsGenerator", "integrals",
                        IntegralsGenerator_generateOne(a, n), js)
    /\ OnlyCall

DerivativesEasyQuestion ==
    /\ call = NoCall
    /\ \E k \in randInt(2, 9), n \in randInt(2, 5), js \in ShuffleDraws :
          call' = Built("DerivativesBasicGenerator", "deriv_easy", easyQuestion(k, n), js)
    /\ OnlyCall

DerivativesMediumQuestion ==
    /\ call = NoCall
    /\ \E a \in randInt(2, 7), n \in randInt(2, 4), b \in randInt(1, 6),
          m \in randInt(1, 3), js \in ShuffleDraws :
          call' = Built("DerivativesBasicGenerator", "deriv_med",
                        mediumQuestion(a, n, b, m), js)
    /\ OnlyCall

DerivativesHardQuestion ==
    /\ call = NoCall
    /\ \E a \in randInt(2, 5), b \in randInt(1, 9), n \in randInt(2, 4),
          js \in ShuffleDraws :
          call' = Built("DerivativesBasicGenerator", "deriv_hard", hardQuestion(a, b, n), js)
    /\ OnlyCall

\* the five numbers are drawn from randInt(1, 10); the model draws them from
\* 1..MaxStatsDraw
GenericStatsQuestion ==
    /\ call = NoCall
    /\ \E id \in {i \in GenericIds : generateOne(i) = "stats"},
          draws \in [1..5 -> randInt(1, MaxStatsDraw)], js \in ShuffleDraws :
          /\ (draws[1] + draws[2] + draws[3] + draws[4] + draws[5]) % 5 = 0
          /\ call' = Built("GenericMathGenerator", <<id, "stats">>,
                           generateStatsQuestion(draws), js)
    /\ OnlyCall

GenericPhysicsQuestion ==
    /\ call = NoCall
    /\ \E id \in {i \in GenericIds : generateOne(i) = "phys"},
          m \in randInt(2, 10), a \in randInt(2, 10), js \in ShuffleDraws :
          /\ call' = Built("GenericMathGenerator", <<id, "phys">>,
                           generatePhysicsQuestion(m, a), js)
    /\ OnlyCall

GenericCalculusQuestion ==
    /\ call = NoCall
    /\ \E id \in {i \in GenericIds : generateOne(i) = "calc"}, js \in ShuffleDraws :
          /\ call' = Built("GenericMathGenerator", <<id, "calc">>,
                           generateCalculusQuestion, js)
    /\ OnlyCall

GenericAlgebraQuestion ==
    /\ call = NoCall
    /\ \E id \in {i \in GenericIds : generateOne(i) = "alg"},
          x \in randInt(-10, 10), js \in ShuffleDraws :
          /\ call' = Built("GenericMathGenerator", <<id, "alg">>,
                           generateAlgebraQuestion(x), js)
    /\ OnlyCall

NextBuild ==
    \/ LimitsGenerateOne
    \/ IntegralsGenerateOne
    \/ DerivativesEasyQuestion
    \/ DerivativesMediumQuestion
    \/ DerivativesHardQuestion
    \/ GenericStatsQuestion
    \/ GenericPhysicsQuestion
    \/ GenericCalculusQuestion
    \/ GenericAlgebraQuestion

SpecBuild == Init /\ [][NextBuild]_vars

\* C11: with the pool exhausted, addBonusQuestion sets bonusTriggered, appends
\* no question and leaves the cursor where it is; a session with exactly one
\* wrong regular answer and no bonus answer then scores 1 star.
C11_BonusOnExhaustedPool ==
    [][(call'.op = "addBonusQuestion" /\ poolIndex >= Len(pool)) =>
          /\ session'.questions = session.questions
          /\ session'.bonusTriggered = TRUE
          /\ session'.answers = session.answers
          /\ session'.currentIndex = session.currentIndex
          /\ poolIndex' = poolIndex
          /\ pool' = pool
          /\ (/\ Len(session.answers) = RegularCount(session)
              /\ WrongAmongFirst(session.answers, RegularCount(session)) = 1) =>
                calculateResult(session').stars = 1]_vars

\* a session with one wrong answer was given no bonus question at the pool's end
C11_Witness ==
    /\ call.op = "addBonusQuestion"
    /\ session # NoSession
    /\ poolIndex = Len(pool)
    /\ session.bonusTriggered
    /\ Len(session.questions) = RegularCount(session)
    /\ Len(session.answers) = RegularCount(session)
    /\ WrongAmongFirst(session.answers, RegularCount(session)) = 1

\* C12: on one session, under submitAnswer, checkState, addBonusQuestion and
\* calculateResult, bonusTriggered never goes back from true to false (so it
\* goes from false to true at most once).
C12_BonusTriggeredStays ==
    [][(/\ call'.op \in {"submitAnswer", "checkQuizState", "addBonusQuestion",
                         "calculateResult"}
        /\ session # NoSession
        /\ session.bonusTriggered) =>
          (session' # NoSession /\ session'.bonusTriggered)]_vars

\* addBonusQuestion was called a second time on a session
C12_Witness ==
    /\ call.op = "addBonusQuestion"
    /\ session # NoSession
    /\ session.bonusTriggered
    /\ Len(session.questions) = RegularCount(session) + 2

\* C13: questions.length is regularCount while no bonus question has been
\* appended and regularCount + 1 afterwards, and never anything else.
C13_QuestionsLength ==
    session # NoSession =>
        /\ Len(session.questions) \in {RegularCount(session), RegularCount(session) + 1}
        /\ ~session.bonusTriggered => Len(session.questions) = RegularCount(session)

\* C14 as stated: with at least regularCount entries left, getRetrySession
\* returns the next regularCount pool entries from the cursor, none of them
\* served before by this pool, in a fresh session, and advances the cursor by
\* regularCount.
C14_RetryNeverRepeats ==
    [][(call'.op = "getRetrySession"
        /\ Len(pool) - poolIndex >= RegularCount(call'.arg)) =>
          LET rc == RegularCount(call'.arg)
              r == call'.ret
          IN  /\ Len(r.questions) = rc
              /\ \A i \in 1..rc : r.questions[i] = pool[poolIndex + i]
              /\ \A i \in poolIndex..(poolIndex + rc - 1) : i \notin served
              /\ r.currentIndex = 0
              /\ r.answers = << >>
              /\ r.bonusTriggered = FALSE
              /\ r.stars = 0
              /\ poolIndex' = poolIndex + rc]_vars

\* C14 (amended): with at least regularCount entries left, getRetrySession
\* returns the next regularCount pool entries from the cursor in a fresh
\* session and advances the cursor by regularCount; none of these entries was
\* served before by this pool as long as the cursor has not wrapped since the
\* pool was generated.
C14_RetryNextBatch ==
    [][(call'.op = "getRetrySession"
        /\ Len(pool) - poolIndex >= RegularCount(call'.arg)) =>
          LET rc == RegularCount(call'.arg)
              r == call'.ret
          IN  /\ Len(r.questions) = rc
              /\ \A i \in 1..rc : r.questions[i] = pool[poolIndex + i]
              /\ ~wrapped => \A i \in poolIndex..(poolIndex + rc - 1) : i \notin served
              /\ r.currentIndex = 0
              /\ r.answers = << >>
              /\ r.bonusTriggered = FALSE
              /\ r.stars = 0
              /\ poolIndex' = poolIndex + rc]_vars

\* a retry took a full batch from a pool that had served a bonus question
C14_Witness ==
    /\ call.op = "getRetrySession"
    /\ ~wrapped
    /\ bonusCalls > 0
    /\ poolIndex > 2 * RegularCount(call.ret)
    /\ call.ret.questions[1] = pool[poolIndex - RegularCount(call.ret) + 1]

\* C15: with fewer than regularCount entries left, getRetrySession sets the
\* cursor to 0 and returns a fresh session on the first regularCount entries
\* of the same pool.
C15_RetryWraps ==
    [][(call'.op = "getRetrySession"
        /\ Len(pool) - poolIndex < RegularCount(session)) =>
          /\ poolIndex' = 0
          /\ pool' = pool
          /\ Len(session'.questions) = RegularCount(session)
          /\ \A i \in 1..RegularCount(session) : session'.questions[i] = pool[i]
          /\ session'.currentIndex = 0
          /\ session'.answers = << >>
          /\ session'.bonusTriggered = FALSE
          /\ session'.isGrandQuiz = session.isGrandQuiz]_vars

\* a retry wrapped after bonus questions had left the cursor short of a batch
C15_Witness ==
    /\ call.op = "getRetrySession"
    /\ session # NoSession
    /\ poolIndex = 0
    /\ bonusCalls > 0
    /\ session.questions[1] = pool[1]

\* C16: the pool and its cursor belong to one live session at a time: every
\* addBonusQuestion and getRetrySession call is served from the pool that the
\* calling session's own createSession generated.
C16_PoolOwnedByCaller ==
    [][(call'.op \in {"addBonusQuestion", "getRetrySession"}) =>
          poolOwner = call'.who]_vars

\* C17: two addBonusQuestion calls, or two getRetrySession calls, on equal
\* session arguments return equal sessions.
C17_EqualArgsEqualResults ==
    [][(/\ call'.op \in {"addBonusQuestion", "getRetrySession"}
        /\ call.op = call'.op
        /\ call.arg = call'.arg) =>
          call'.ret = call.ret]_vars

\* the positions of the register calls made for id
RegisteredAt(id) == {i \in 1..Len(registered) : registered[i].id = id}

\* the generator of the last register call made for id
LastRegistered(id) ==
    registered[CHOOSE i \in RegisteredAt(id) : \A k \in RegisteredAt(id) : k <= i]

\* C19: generateQuestions(id, count, distribution) returns the empty sequence
\* when no generator was registered under id, and otherwise what the generator
\* most recently registered under id generates for (count, distribution).
C19_RegistryDispatch ==
    (call.op = "generateQuestions") =>
        IF RegisteredAt(call.generatorId) = {}
        THEN call.ret = << >>
        ELSE call.ret = generatorGenerate(LastRegistered(call.generatorId), call.count,
                                          call.distribution, call.seed)

\* generateQuestions was served by a generator that replaced an earlier one
C19_Witness ==
    /\ call.op = "generateQuestions"
    /\ call.count > 0
    /\ \E i, k \in RegisteredAt(call.generatorId) :
          i < k /\ registered[i] # registered[k] /\ registered[k] = LastRegistered(call.generatorId)
    /\ call.ret # << >>
    /\ call.ret # generatorGenerate(registered[1], call.count, call.distribution, call.seed)

\* C20: generate(count, distribution) of a registered generator returns
\* exactly count questions, for every count >= 0 and every distribution.
C20_GenerateCount ==
    (call.op = "generate") => Len(call.ret) = call.count

\* the derivatives generator was asked for fewer questions than the
\* distribution has entries
C20_Witness ==
    /\ call.op = "generate"
    /\ call.generator = DerivativesBasicGenerator
    /\ call.count > 0
    /\ call.count < call.distribution.easy + call.distribution.medium
                      + call.distribution.hard
    /\ Len(call.ret) = call.count

\* a session is finished: checkState is complete and no question is left
Finished(s) ==
    /\ checkQuizState(s) = "complete"
    /\ s.currentIndex = Len(s.questions)

\* C18: on a finished session submitAnswer and addBonusQuestion return the
\* session unchanged and leave the cursor unchanged.
C18_FinishedNoOp ==
    [][(/\ call'.op \in {"submitAnswer", "addBonusQuestion"}
        /\ session # NoSession
        /\ Finished(session)) =>
          /\ session' = session
          /\ poolIndex' = poolIndex]_vars

\* C25: under addBonusQuestion and getRetrySession the cursor never decreases,
\* except in the step where getRetrySession finds fewer than regularCount
\* entries left and wraps it.
C25_CursorMonotone ==
    [][(call'.op \in {"addBonusQuestion", "getRetrySession"}) =>
          \/ poolIndex' >= poolIndex
          \/ /\ call'.op = "getRetrySession"
             /\ Len(pool) - poolIndex < RegularCount(call'.arg)
             /\ poolIndex' = 0]_vars

\* the cursor has wrapped and bonus and retry calls have moved it on again
C25_Witness ==
    /\ call.op \in {"addBonusQuestion", "getRetrySession"}
    /\ wrapped
    /\ poolIndex > 0
    /\ bonusCalls > 0

\* C26: the cursor always lies within 0..pool length, and a createSession
\* that fails leaves the pool and the cursor as they were.
C26_CursorWithinPool ==
    [][/\ 0 <= poolIndex'
       /\ poolIndex' <= Len(pool')
       /\ (call'.op = "createSession" /\ call'.ret = NoSession) =>
              (pool' = pool /\ poolIndex' = poolIndex)]_vars

\* C27: the question addBonusQuestion appends is not already one of the
\* session's questions, also after retries that wrapped the cursor.
C27_BonusIsNew ==
    [][(call'.op = "addBonusQuestion" /\ bonusCalls = 0 /\ poolIndex < Len(pool)) =>
          \A i \in 1..Len(call'.arg.questions) :
              call'.arg.questions[i] # pool[poolIndex + 1]]_vars

\* C28: when addBonusQuestion is called only on bonus_needed, a session for
\* which checkState returns complete has no served question unanswered.
C28_CompleteMeansAllAnswered ==
    (session # NoSession /\ checkQuizState(session) = "complete") =>
        session.currentIndex = Len(session.questions)

\* how many of the questions qs have difficulty d
CountDifficulty(qs, d) == Cardinality({i \in 1..Len(qs) : qs[i].difficulty = d})

\* C24: when the distribution's counts sum to less than count, generate
\* returns distribution.easy easy and distribution.hard hard questions and
\* makes all the others medium.
C24_ShortfallIsMedium ==
    (/\ call.op = "generate"
     /\ call.distribution.easy + call.distribution.medium
            + call.distribution.hard < call.count) =>
        /\ CountDifficulty(call.ret, "easy") = call.distribution.easy
        /\ CountDifficulty(call.ret, "hard") = call.distribution.hard
        /\ CountDifficulty(call.ret, "medium") =
              call.count - call.distribution.easy - call.distribution.hard

\* the position at which the option that was the correct one landed in the shuffle
LandedAt(c) ==
    LET shuffled == shuffleOptions(allOptionsOf(c.correctAnswer, c.distractors),
                                   Len(c.distractors), c.js)
    IN  CHOOSE i \in 1..Len(shuffled) : shuffled[i].id = "correct"

\* C21: a built question has exactly 4 options, their ids are A, B, C, D in
\* this order, and correctOptionId is one of these letters, whatever the
\* shuffle does.
C21_FourLetteredOptions ==
    (call.op = "generateOne") =>
        /\ Len(call.ret.options) = 4
        /\ \A i \in 1..4 : call.ret.options[i].id = <<"A", "B", "C", "D">>[i]
        /\ call.ret.correctOptionId \in {"A", "B", "C", "D"}

\* the correct option of a built question landed last
C21_Witness ==
    /\ call.op = "generateOne"
    /\ LandedAt(call) = 4
    /\ call.ret.correctOptionId = "D"
    /\ call.ret.options[4].text = call.correctAnswer

\* C22: correctOptionId is the letter of the position at which the correct
\* option landed in the shuffle, for every shuffle and all distractor texts.
C22_CorrectIdTracksOption ==
    (call.op = "generateOne") =>
        call.ret.correctOptionId = call.ret.options[LandedAt(call)].id

\* C23: none of the three distractor texts of a generated question equals
\* the text of the correct answer.
C23_DistractorsDiffer ==
    (call.op = "generateOne") =>
        \A i \in 1..Len(call.distractors) : call.distractors[i] # call.correctAnswer

\* C29: once the user has left the quiz screen through onBack, no result of
\* that attempt is handed to onComplete and the app does not navigate to the
\* result screen: a step that delivers a result or changes the screen to
\* QuizResult is the timeout of the screen that is mounted.
C29_NoResultAfterBack ==
    [][(\/ completed' # completed /\ completed' # NoResult
        \/ screen' = "QuizResult" /\ screen # "QuizResult") =>
          (mounted /\ timers # << >> /\ Head(timers).live)]_vars


\* C30: every lesson whose download status becomes 'downloading' eventually
\* reaches status 'downloaded' with progress 100, timers firing, also when the
\* service is initialised again from the stored item after a restart.
C30_DownloadCompletes ==
    \A lessonId \in Lessons :
        (getStatus(cache, lessonId).status = "downloading")
            ~> /\ getStatus(cache, lessonId).status = "downloaded"
               /\ getStatus(cache, lessonId).progress = 100

====
